---- MODULE Spec2Model ----
(***************************************************************************)
(* Model of scripts/ct_lipro_train.py: the ImageLatentsClassifier wrapper  *)
(* (save / load) and the fine-tuning loop `finetune`, at the granularity   *)
(* of the statements of the loop body.                                     *)
(*                                                                         *)
(* Abstractions:                                                           *)
(*  - a tensor is a natural number; an optimizer step adds one to every    *)
(*    trainable tensor, so a value also tells how many updates it has had; *)
(*  - a file name is the sequence of the pieces the f-string concatenates; *)
(*    integers are printed in decimal, digit by digit;                     *)
(*  - learning rates are fixed-point numbers, BaseLr standing for args.lr; *)
(*    the cosine is a fixed-point Taylor polynomial (unit 1/SCALE).        *)
(***************************************************************************)
EXTENDS Integers, Sequences, FiniteSets, TLC

\* ------------------------------------------------------------------ bounds
MaxEpochs == 3
MaxBatches == 11
MaxSaveEvery == 2
MaxPrintEvery == 2
MaxWarmup == 2
MaxTensor == 2
MaxWrapperWrites == 3

\* --------------------------------------------------------------- constants
None == "None"
BaseLr == 100000
SCALE == 10000
PI_S == 31416

VARIABLES
    args,         \* parsed command line: epochs, print_every, save_every, save, warmup_length, lr
    num_batches,  \* len(dl)
    pc,           \* position of the control flow in finetune
    epoch,        \* loop variable of the outer loop
    epoch_bound,  \* whether the local name `epoch` has been assigned
    it,           \* number of batches the iterator of enumerate(dl) has yielded in this epoch
    i,            \* loop variable of the inner loop (batch index)
    step,         \* i + epoch * num_batches
    params,       \* parameters of image_classifier (encoder and head)
    grad,         \* state of the accumulated gradients
    optimizer,    \* AdamW: learning rate of the param group and number of updates
    files,        \* file system: set of <<path, content>>
    writes,       \* paths in the order they were written
    dirExists,    \* whether the directory args.save exists
    ops,          \* operations executed so far in the current step, in order
    k,            \* number of loop bodies entered so far
    exc,          \* "none", or "raised" once an exception has propagated
    lastOp,       \* last wrapper operation (save / load) and its outcome
    snap          \* per path, the parameters the wrapper had when it was last saved there

vars == <<args, num_batches, pc, epoch, epoch_bound, it, i, step, params, grad,
          optimizer, files, writes, dirExists, ops, k, exc, lastOp, snap>>

\* ----------------------------------------------------------------- helpers
DigitChars == <<"0", "1", "2", "3", "4", "5", "6", "7", "8", "9">>

RECURSIVE Digits(_)
\* str(n) for n >= 0, as used by an f-string field
Digits(n) ==
    IF n < 10 THEN <<DigitChars[n + 1]>>
    ELSE Digits(n \div 10) \o <<DigitChars[(n % 10) + 1]>>

\* os.path.join(args.save, name)
PathJoin(dir, name) == <<dir, "/">> \o name

\* f'{prefix}_{idx}_epoch_{ep}.pt'
PeriodicNameNoEpoch(prefix, idx, ep) ==
    <<prefix, "_">> \o Digits(idx) \o <<".pt">>

PeriodicName(prefix, idx, ep) ==
    <<prefix, "_">> \o Digits(idx) \o <<"_epoch_">> \o Digits(ep) \o <<".pt">>

\* f'{prefix}_{ep}.pt'
FinalName(prefix, ep) ==
    <<prefix, "_">> \o Digits(ep) \o <<".pt">>

\* the file system after writing content at path (an existing file is replaced)
WriteFile(fs, path, content) ==
    {f \in fs : f[1] # path} \cup {<<path, content>>}

HasFile(fs, path) == \E f \in fs : f[1] = path

ReadFile(fs, path) == (CHOOSE f \in fs : f[1] = path)[2]

\* ------------------------------------------------- ImageLatentsClassifier
\* nn.Module.state_dict(): the parameters of the sub-modules, flattened
\* under their dotted names
StateDictHeadOnly(p) ==
    { <<<<"classifier", "weight">>, p.classifier.weight>>,
      <<<<"classifier", "bias">>, p.classifier.bias>> }

StateDict(p) ==
    { <<<<"trained_model", "latents">>, p.trained_model.latents>>,
      <<<<"classifier", "weight">>, p.classifier.weight>>,
      <<<<"classifier", "bias">>, p.classifier.bias>> }

StateDictKeys == { <<"trained_model", "latents">>,
                   <<"classifier", "weight">>,
                   <<"classifier", "bias">> }

Lookup(sd, key) == (CHOOSE e \in sd : e[1] = key)[2]

\* load_state_dict(strict=True) accepts exactly the wrapper's own keys
KeysMatch(sd) == {e[1] : e \in sd} = StateDictKeys

\* the parameters after load_state_dict(sd)
FromStateDict(sd) ==
    [trained_model |-> [latents |-> Lookup(sd, <<"trained_model", "latents">>)],
     classifier |-> [weight |-> Lookup(sd, <<"classifier", "weight">>),
                     bias |-> Lookup(sd, <<"classifier", "bias">>)]]

\* ImageLatentsClassifier.save(file_path)
save(file_path) ==
    /\ files' = WriteFile(files, file_path, StateDict(params))
    /\ writes' = Append(writes, file_path)
    /\ snap' = {s \in snap : s[1] # file_path} \cup {<<file_path, params>>}
    /\ lastOp' = [op |-> "save", path |-> file_path, ok |-> TRUE, before |-> params]

\* ImageLatentsClassifier.load(file_path)
load(file_path) ==
    /\ lastOp' = [op |-> "load", path |-> file_path,
                  ok |-> HasFile(files, file_path) /\ KeysMatch(ReadFile(files, file_path)),
                  before |-> params]
    /\ params' = IF HasFile(files, file_path) /\ KeysMatch(ReadFile(files, file_path))
                 THEN FromStateDict(ReadFile(files, file_path))
                 ELSE params
    /\ UNCHANGED <<files, writes, snap>>

\* ------------------------------------------------------ learning-rate schedule
\* cos(x) for 0 <= x <= pi/2, x and the result in units of 1/SCALE
CosSmall(x) ==
    LET y == (x * x) \div SCALE
        h4 == SCALE - (y \div 56)
        h3 == SCALE - (((y * h4) \div SCALE) \div 30)
        h2 == SCALE - (((y * h3) \div SCALE) \div 12)
    IN  SCALE - (((y * h2) \div SCALE) \div 2)

\* cos(pi * e / es) for 0 <= e <= es, es > 0
CosPi(e, es) ==
    IF 2 * e <= es THEN CosSmall((PI_S * e) \div es)
    ELSE 0 - CosSmall((PI_S * (es - e)) \div es)

\* the schedule built by cosine_lr(optimizer, base_lr, warmup_length, steps)
CosineLr(base_lr, warmup_length, steps, s) ==
    IF s < warmup_length
    THEN (base_lr * s) \div warmup_length
    ELSE (base_lr * (SCALE + CosPi(s - warmup_length, steps - warmup_length)))
             \div (2 * SCALE)

\* args.epochs * num_batches, the total handed to cosine_lr
TotalStepsShort == args.epochs * num_batches - 1

TotalSteps == args.epochs * num_batches

\* step = i + epoch * num_batches
StepIndexNoStride == i + epoch

StepIndex == i + epoch * num_batches

\* i % args.save_every == 0
SaveDueGlobal == step % args.save_every = 0

SaveDue == i % args.save_every = 0

\* i % args.print_every == 0
PrintDue == i % args.print_every = 0

\* names of the checkpoint files
PeriodicModelPathGlobal ==
    PathJoin(args.save, PeriodicName("checkpoint", step, epoch + 1))

PeriodicModelPath ==
    PathJoin(args.save, PeriodicName("checkpoint", i, epoch + 1))

PeriodicOptimPathZeroBased ==
    PathJoin(args.save, PeriodicName("optim", i, epoch))

PeriodicOptimPath ==
    PathJoin(args.save, PeriodicName("optim", i, epoch + 1))

FinalModelPathZeroBased == PathJoin(args.save, FinalName("checkpoint", epoch))

FinalModelPath == PathJoin(args.save, FinalName("checkpoint", epoch + 1))

FinalOptimPath == PathJoin(args.save, FinalName("optim", epoch + 1))

\* ------------------------------------------------------------------- Init
InitParams ==
    [trained_model |-> [latents |-> 0], classifier |-> [weight |-> 0, bias |-> 0]]

NoOp == [op |-> "none", path |-> <<>>, ok |-> TRUE, before |-> InitParams]

Init ==
    /\ args \in [epochs : 0..MaxEpochs,
                 print_every : 1..MaxPrintEvery,
                 save_every : 1..MaxSaveEvery,
                 save : {None, "out"},
                 warmup_length : 0..MaxWarmup,
                 lr : {BaseLr}]
    /\ num_batches \in 0..MaxBatches
    /\ pc = "epoch_head"
    /\ epoch = 0
    /\ epoch_bound = FALSE
    /\ it = 0
    /\ i = 0
    /\ step = 0
    /\ params = InitParams
    /\ grad = "none"
    /\ optimizer = [lr |-> args.lr, updates |-> 0]
    /\ files = {}
    /\ writes = <<>>
    /\ dirExists \in BOOLEAN
    /\ ops = <<>>
    /\ k = 0
    /\ exc = "none"
    /\ lastOp = NoOp
    /\ snap = {}

\* -------------------------------------------------------------- finetune
loopVars == <<epoch, epoch_bound, it, i>>
trainVars == <<step, params, grad, optimizer>>
fsVars == <<files, writes, dirExists>>
wrapperVars == <<lastOp, snap>>
cfgVars == <<args, num_batches>>

\* an exception propagates out of finetune: the process ends
Raise ==
    /\ pc' = "failed"
    /\ exc' = "raised"

\* for epoch in range(args.epochs): next value; model.train()
EpochHead ==
    /\ pc = "epoch_head"
    /\ (IF epoch_bound THEN epoch + 1 ELSE 0) < args.epochs
    /\ epoch' = (IF epoch_bound THEN epoch + 1 ELSE 0)
    /\ epoch_bound' = TRUE
    /\ it' = 0
    /\ pc' = "batch_head"
    /\ UNCHANGED <<cfgVars, i, trainVars, fsVars, ops, k, exc, wrapperVars>>

\* range(args.epochs) is exhausted
EpochsExhausted ==
    /\ pc = "epoch_head"
    /\ ~((IF epoch_bound THEN epoch + 1 ELSE 0) < args.epochs)
    /\ pc' = "final"
    /\ UNCHANGED <<cfgVars, loopVars, trainVars, fsVars, ops, k, exc, wrapperVars>>

\* for i, batch in enumerate(dl): next batch; start_time = time.time()
BatchHead ==
    /\ pc = "batch_head"
    /\ it < num_batches
    /\ i' = it
    /\ it' = it + 1
    /\ k' = k + 1
    /\ ops' = <<>>
    /\ pc' = "sched"
    /\ UNCHANGED <<cfgVars, epoch, epoch_bound, trainVars, fsVars, exc, wrapperVars>>

\* enumerate(dl) is exhausted
BatchesExhausted ==
    /\ pc = "batch_head"
    /\ it = num_batches
    /\ pc' = "epoch_head"
    /\ UNCHANGED <<cfgVars, loopVars, trainVars, fsVars, ops, k, exc, wrapperVars>>

\* step = i + epoch * num_batches; scheduler(step)
Schedule ==
    /\ pc = "sched"
    /\ step' = StepIndex
    /\ IF StepIndex >= args.warmup_length /\ TotalSteps - args.warmup_length = 0
       THEN \* division by zero inside the schedule
            /\ Raise
            /\ UNCHANGED <<optimizer, ops>>
       ELSE /\ optimizer' = [optimizer EXCEPT
                   !.lr = CosineLr(args.lr, args.warmup_length, TotalSteps, StepIndex)]
            /\ ops' = Append(ops, "lr")
            /\ pc' = "zero_grad"
            /\ exc' = exc
    /\ UNCHANGED <<cfgVars, loopVars, params, grad, fsVars, k, wrapperVars>>

\* optimizer.zero_grad()
ZeroGrad ==
    /\ pc = "zero_grad"
    /\ grad' = "zero"
    /\ ops' = Append(ops, "zero_grad")
    /\ pc' = "forward"
    /\ UNCHANGED <<cfgVars, loopVars, step, params, optimizer, fsVars, k, exc, wrapperVars>>

\* labels, text_tokens; logits = model(text_tokens, inputs, device=...)
Forward ==
    /\ pc = "forward"
    /\ ops' = Append(ops, "forward")
    /\ pc' = "loss"
    /\ UNCHANGED <<cfgVars, loopVars, trainVars, fsVars, k, exc, wrapperVars>>

\* loss = loss_fn(logits, labels)
Loss ==
    /\ pc = "loss"
    /\ ops' = Append(ops, "loss")
    /\ pc' = "backward"
    /\ UNCHANGED <<cfgVars, loopVars, trainVars, fsVars, k, exc, wrapperVars>>

BackwardSkipClip ==
    /\ pc = "backward"
    /\ grad' = "computed"
    /\ ops' = Append(ops, "backward")
    /\ pc' = "optstep"
    /\ UNCHANGED <<cfgVars, loopVars, step, params, optimizer, fsVars, k, exc, wrapperVars>>

\* loss.backward()
Backward ==
    /\ pc = "backward"
    /\ grad' = "computed"
    /\ ops' = Append(ops, "backward")
    /\ pc' = "clip"
    /\ UNCHANGED <<cfgVars, loopVars, step, params, optimizer, fsVars, k, exc, wrapperVars>>

\* torch.nn.utils.clip_grad_norm_(params, 1.0)
ClipGradNorm ==
    /\ pc = "clip"
    /\ grad' = "clipped"
    /\ ops' = Append(ops, "clip")
    /\ pc' = "optstep"
    /\ UNCHANGED <<cfgVars, loopVars, step, params, optimizer, fsVars, k, exc, wrapperVars>>

\* the parameters after one AdamW update
Updated(p) ==
    [trained_model |-> [latents |-> p.trained_model.latents + 1],
     classifier |-> [weight |-> p.classifier.weight + 1,
                     bias |-> p.classifier.bias + 1]]

\* optimizer.step(); batch_time
OptimizerStep ==
    /\ pc = "optstep"
    /\ params' = Updated(params)
    /\ optimizer' = [optimizer EXCEPT !.updates = @ + 1]
    /\ ops' = Append(ops, "optstep")
    /\ pc' = "print_check"
    /\ UNCHANGED <<cfgVars, loopVars, step, grad, fsVars, k, exc, wrapperVars>>

\* if i % args.print_every == 0: print(...)
PrintCheck ==
    /\ pc = "print_check"
    /\ ops' = IF PrintDue THEN Append(ops, "log") ELSE ops
    /\ pc' = "save_check"
    /\ UNCHANGED <<cfgVars, loopVars, trainVars, fsVars, k, exc, wrapperVars>>

\* if i % args.save_every == 0:
SaveCheck ==
    /\ pc = "save_check"
    /\ pc' = IF SaveDue THEN "makedirs" ELSE "batch_head"
    /\ UNCHANGED <<cfgVars, loopVars, trainVars, fsVars, ops, k, exc, wrapperVars>>

\* os.makedirs(args.save, exist_ok=True)   (TypeError when args.save is None)
PeriodicMakedirs ==
    /\ pc = "makedirs"
    /\ IF args.save = None
       THEN /\ Raise
            /\ UNCHANGED <<dirExists, ops>>
       ELSE /\ dirExists' = TRUE
            /\ ops' = Append(ops, "makedirs")
            /\ pc' = "save_model"
            /\ exc' = exc
    /\ UNCHANGED <<cfgVars, loopVars, trainVars, files, writes, k, wrapperVars>>

\* model_path = ...; print; image_classifier.save(model_path)
PeriodicSaveModel ==
    /\ pc = "save_model"
    /\ dirExists
    /\ save(PeriodicModelPath)
    /\ ops' = Append(ops, "save_model")
    /\ pc' = "save_optim"
    /\ UNCHANGED <<cfgVars, loopVars, step, grad, optimizer, dirExists, k, exc>>
    /\ UNCHANGED params

\* optim_path = ...; torch.save(optimizer.state_dict(), optim_path)
PeriodicSaveOptim ==
    /\ pc = "save_optim"
    /\ dirExists
    /\ files' = WriteFile(files, PeriodicOptimPath, optimizer)
    /\ writes' = Append(writes, PeriodicOptimPath)
    /\ ops' = Append(ops, "save_optim")
    /\ pc' = "batch_head"
    /\ UNCHANGED <<cfgVars, loopVars, trainVars, dirExists, k, exc, wrapperVars>>

\* if args.save is not None:
FinalCheck ==
    /\ pc = "final"
    /\ pc' = IF args.save # None THEN "final_makedirs" ELSE "done"
    /\ UNCHANGED <<cfgVars, loopVars, trainVars, fsVars, ops, k, exc, wrapperVars>>

\* os.makedirs(args.save, exist_ok=True)
FinalMakedirs ==
    /\ pc = "final_makedirs"
    /\ dirExists' = TRUE
    /\ pc' = "final_model"
    /\ UNCHANGED <<cfgVars, loopVars, trainVars, files, writes, ops, k, exc, wrapperVars>>

\* model_path = ...{epoch+1}...; image_classifier.save(model_path)
\* (UnboundLocalError when the outer loop never assigned epoch)
FinalSaveModel ==
    /\ pc = "final_model"
    /\ IF ~epoch_bound
       THEN /\ Raise
            /\ UNCHANGED <<files, writes, wrapperVars>>
       ELSE /\ dirExists
            /\ save(FinalModelPath)
            /\ pc' = "final_optim"
            /\ exc' = exc
    /\ UNCHANGED <<cfgVars, loopVars, trainVars, dirExists, ops, k>>

\* optim_path = ...; torch.save(optimizer.state_dict(), optim_path)
FinalSaveOptim ==
    /\ pc = "final_optim"
    /\ dirExists
    /\ files' = WriteFile(files, FinalOptimPath, optimizer)
    /\ writes' = Append(writes, FinalOptimPath)
    /\ pc' = "done"
    /\ UNCHANGED <<cfgVars, loopVars, trainVars, dirExists, ops, k, exc, wrapperVars>>

\* statements of finetune that can raise at run time (data loading, device,
\* shapes, I/O)
FailablePcs == {"batch_head", "forward", "loss", "backward", "optstep",
                "save_model", "save_optim", "final_model", "final_optim"}

FailAndContinue ==
    /\ pc \in FailablePcs
    /\ exc' = "raised"
    /\ pc' = "batch_head"
    /\ UNCHANGED <<cfgVars, loopVars, trainVars, fsVars, ops, k, wrapperVars>>

\* no try/except anywhere in finetune: an exception ends the run
Fail ==
    /\ pc \in FailablePcs
    /\ Raise
    /\ UNCHANGED <<cfgVars, loopVars, trainVars, fsVars, ops, k, wrapperVars>>

Next ==
    \/ EpochHead
    \/ EpochsExhausted
    \/ BatchHead
    \/ BatchesExhausted
    \/ Schedule
    \/ ZeroGrad
    \/ Forward
    \/ Loss
    \/ Backward
    \/ ClipGradNorm
    \/ OptimizerStep
    \/ PrintCheck
    \/ SaveCheck
    \/ PeriodicMakedirs
    \/ PeriodicSaveModel
    \/ PeriodicSaveOptim
    \/ FinalCheck
    \/ FinalMakedirs
    \/ FinalSaveModel
    \/ FinalSaveOptim
    \/ Fail

Spec == Init /\ [][Next]_vars

\* ----------------------------------------- the wrapper on its own (save / load)
WrapperPaths == {<<"a.pt">>, <<"b.pt">>}

ParamStates ==
    [trained_model : [latents : 0..MaxTensor],
     classifier : [weight : 0..MaxTensor, bias : 0..MaxTensor]]

InitWrapper ==
    /\ args = [epochs |-> 0, print_every |-> 1, save_every |-> 1, save |-> None,
               warmup_length |-> 0, lr |-> BaseLr]
    /\ num_batches = 0
    /\ pc = "wrapper"
    /\ epoch = 0
    /\ epoch_bound = FALSE
    /\ it = 0
    /\ i = 0
    /\ step = 0
    /\ params \in ParamStates
    /\ grad = "none"
    /\ optimizer = [lr |-> BaseLr, updates |-> 0]
    /\ files = {}
    /\ writes = <<>>
    /\ dirExists = TRUE
    /\ ops = <<>>
    /\ k = 0
    /\ exc = "none"
    /\ lastOp = NoOp
    /\ snap = {}

idleVars == <<cfgVars, pc, loopVars, step, grad, optimizer, dirExists, ops, k, exc>>

\* image_classifier.save(path)
WrapperSave(path) ==
    /\ pc = "wrapper"
    /\ Len(writes) < MaxWrapperWrites
    /\ save(path)
    /\ UNCHANGED <<idleVars, params>>

\* image_classifier.load(path)
WrapperLoad(path) ==
    /\ pc = "wrapper"
    /\ load(path)
    /\ UNCHANGED idleVars

\* an optimizer step between a save and a load moves the parameters
WrapperTrain ==
    /\ pc = "wrapper"
    /\ Updated(params) \in ParamStates
    /\ params' = Updated(params)
    /\ lastOp' = [op |-> "train", path |-> <<>>, ok |-> TRUE, before |-> params]
    /\ UNCHANGED <<idleVars, files, writes, snap>>

NextWrapper ==
    \/ \E path \in WrapperPaths : WrapperSave(path)
    \/ \E path \in WrapperPaths : WrapperLoad(path)
    \/ WrapperTrain

SpecWrapper == InitWrapper /\ [][NextWrapper]_vars

\* Fairness: the interpreter keeps executing finetune until it returns or raises
FairSpec == Spec /\ WF_vars(Next)

\* ================================================================= claims
IsPrefix(a, b) == Len(a) <= Len(b) /\ SubSeq(b, 1, Len(a)) = a

Last(seq) == seq[Len(seq)]

Occurrences(seq, x) == Cardinality({n \in 1..Len(seq) : seq[n] = x})

StepOps == <<"lr", "zero_grad", "forward", "loss", "backward", "clip", "optstep">>

SaveOps == <<"makedirs", "save_model", "save_optim">>

CompleteStepTraces ==
    { StepOps, StepOps \o <<"log">>, StepOps \o SaveOps, StepOps \o <<"log">> \o SaveOps }

BetweenSteps == {"batch_head", "epoch_head", "final", "final_makedirs",
                 "final_model", "final_optim", "done"}

InBody == {"zero_grad", "forward", "loss", "backward", "clip", "optstep",
           "print_check", "save_check", "makedirs", "save_model", "save_optim"}

\* ---- C1
C1_Order ==
    /\ \E t \in CompleteStepTraces : IsPrefix(ops, t)
    /\ (pc \in BetweenSteps /\ exc = "none" /\ k > 0) => ops \in CompleteStepTraces
    /\ (pc \in {"makedirs", "save_model", "save_optim"}) => IsPrefix(StepOps, ops)
    /\ optimizer.updates = (IF k = 0 THEN 0 ELSE k - 1 + Occurrences(ops, "optstep"))
    /\ params.classifier.weight = optimizer.updates

C1_OnlyOptimizerWrites ==
    (params' # params) => (pc = "optstep" /\ Last(ops') = "optstep")

\* C1: in every step the operations lr update, zero_grad, forward, loss,
\* backward, clipping, optimizer step happen once each in this order; a log or a
\* checkpoint write of the step comes after its optimizer step and before the
\* next lr update; the parameters change exactly once per step, by the
\* optimizer step only.
C1_Theorem == []C1_Order /\ [][C1_OnlyOptimizerWrites]_vars

C1_Witness ==
    /\ pc = "done"
    /\ k >= 2
    /\ ops = StepOps \o <<"log">> \o SaveOps

\* ---- C2
StepEndsUnfailed ==
    /\ pc \in {"save_check", "save_optim"}
    /\ pc' = "batch_head"
    /\ exc' = "none"

\* C2 as written: a periodic checkpoint is written at a step exactly when the
\* global step index is a multiple of save_every.
C2_Original ==
    [][StepEndsUnfailed => ((pc = "save_optim") <=> (step % args.save_every = 0))]_vars

C2_ByBatchIndex ==
    StepEndsUnfailed =>
        /\ (pc = "save_optim") <=> (i % args.save_every = 0)
        /\ (pc = "save_optim") =>
              /\ Len(writes') = Len(writes) + 1
              /\ \E f \in files' : f[1] = writes[Len(writes)] /\ f[2] = StateDict(params)
              /\ \E f \in files' : f[1] = Last(writes') /\ f[2] = optimizer

\* C2 amended: a periodic checkpoint (model state, then optimizer state) is
\* written at an unfailed step exactly when the batch index within the epoch is
\* a multiple of save_every.
C2_Theorem == [][C2_ByBatchIndex]_vars

C2_Witness ==
    /\ pc = "batch_head"
    /\ exc = "none"
    /\ k > 0
    /\ it = i + 1
    /\ Last(ops) = "save_optim"
    /\ step % args.save_every # 0

\* ---- C3
NameOf(prefix, idx, ep) ==
    <<args.save, "/", prefix, "_">> \o Digits(idx) \o <<"_epoch_">> \o Digits(ep) \o <<".pt">>

JustWroteModel == pc = "save_optim"

JustWroteOptim ==
    /\ pc = "batch_head"
    /\ exc = "none"
    /\ k > 0
    /\ it = i + 1
    /\ Last(ops) = "save_optim"

\* C3 as written: the periodic files are named after the global step index.
C3_Original ==
    /\ JustWroteModel => Last(writes) = NameOf("checkpoint", step, epoch + 1)
    /\ JustWroteOptim => Last(writes) = NameOf("optim", step, epoch + 1)

\* C3 amended: the periodic files of 0-indexed epoch e are named
\* checkpoint_{i}_epoch_{e+1}.pt and optim_{i}_epoch_{e+1}.pt with i the batch
\* index within the epoch.
C3_Theorem ==
    /\ JustWroteModel => Last(writes) = NameOf("checkpoint", i, epoch + 1)
    /\ JustWroteOptim => Last(writes) = NameOf("optim", i, epoch + 1)

C3_Witness ==
    /\ JustWroteModel
    /\ epoch = 2
    /\ i = 10
    /\ step # i
    /\ Last(writes) = <<"out", "/", "checkpoint", "_", "1", "0", "_epoch_", "3", ".pt">>

\* ---- C4
FinalNameOf(prefix, n) == <<args.save, "/", prefix, "_">> \o Digits(n) \o <<".pt">>

\* C4 as written: every run that ends without a failure has written
\* checkpoint_{E}.pt and optim_{E}.pt.
C4_Original ==
    pc = "done" =>
        /\ HasFile(files, FinalNameOf("checkpoint", args.epochs))
        /\ HasFile(files, FinalNameOf("optim", args.epochs))

\* C4 amended: a run that ends without failure with an output directory
\* configured has E >= 1 and has written, last of all and after the last
\* optimizer update, checkpoint_{E}.pt and optim_{E}.pt; without an output
\* directory nothing is written; with E = 0 and an output directory the final
\* write raises instead.
C4_Theorem ==
    /\ (pc = "done" /\ args.save # None) =>
          /\ args.epochs >= 1
          /\ Len(writes) >= 2
          /\ writes[Len(writes) - 1] = FinalNameOf("checkpoint", args.epochs)
          /\ writes[Len(writes)] = FinalNameOf("optim", args.epochs)
          /\ ReadFile(files, FinalNameOf("checkpoint", args.epochs)) = StateDict(params)
          /\ ReadFile(files, FinalNameOf("optim", args.epochs)) = optimizer
          /\ optimizer.updates = args.epochs * num_batches
          /\ params.classifier.weight = args.epochs * num_batches
    /\ (pc = "done" /\ args.save = None) => files = {}
    /\ (args.epochs = 0 /\ args.save # None) => pc # "done"

C4_Witness ==
    /\ pc = "done"
    /\ args.save # None
    /\ k >= 2

\* ---- C5
C5_AfterFailure ==
    /\ (exc' = "raised") => (files' = files /\ writes' = writes /\ k' = k)
    /\ (exc = "raised") => (pc' = pc /\ k' = k /\ ops' = ops /\ params' = params)

\* C5: an exception inside a step ends the run: no further step, no retry, no
\* further checkpoint write, earlier files untouched.
C5_Theorem == [][C5_AfterFailure]_vars /\ [](exc = "raised" <=> pc = "failed")

C5_Witness ==
    /\ exc = "raised"
    /\ pc = "failed"
    /\ Len(writes) >= 2
    /\ k < args.epochs * num_batches

\* ---- C6
\* C6: load after save restores exactly the parameters saved at that path, also
\* when they were changed in between; save leaves the parameters unchanged.
C6_Theorem ==
    /\ (lastOp.op = "load" /\ \E s \in snap : s[1] = lastOp.path) =>
          /\ lastOp.ok
          /\ <<lastOp.path, params>> \in snap
    /\ (lastOp.op = "save") =>
          /\ params = lastOp.before
          /\ <<lastOp.path, params>> \in snap

C6_Witness ==
    /\ pc = "wrapper"
    /\ lastOp.op = "load"
    /\ lastOp.ok
    /\ lastOp.before # params
    /\ lastOp.before.trained_model # params.trained_model

\* ---- C7
Scheduled == pc = "sched" /\ pc' = "zero_grad"

C7_Monotone ==
    Scheduled =>
        /\ (step' >= 1 /\ step' < args.warmup_length) => optimizer'.lr > optimizer.lr
        /\ (step' - 1 >= args.warmup_length) => optimizer'.lr <= optimizer.lr

C8_Steps ==
    /\ (pc \in InBody) => (step = k - 1 /\ step = i + epoch * num_batches)
    /\ (pc \in InBody \cup {"sched"}) => k <= args.epochs * num_batches
    /\ (pc \in InBody) => step < args.epochs * num_batches
    /\ (pc = "sched" /\ k = 1) => (epoch = 0 /\ i = 0)
    /\ (pc \in {"final", "final_makedirs", "final_model", "final_optim", "done"})
          => k = args.epochs * num_batches

\* C8: an unfailed run executes exactly E*B steps from epoch 0, batch 0, and
\* ends; the k-th step (from 0) gets step index k, below total_steps E*B.
C8_Theorem == []C8_Steps /\ <>(pc \in {"done", "failed"})

C8_Witness ==
    /\ pc = "done"
    /\ k = 6
    /\ args.epochs = 2
    /\ step = 5

\* ---- C9
OptimFor(path) == <<path[1], "/", "optim">> \o SubSeq(path, 4, Len(path))

C9_Paired ==
    /\ (exc = "none" /\ pc \notin {"save_optim", "final_optim"}) =>
          \A f \in files : f[1][3] = "checkpoint" =>
              \E g \in files :
                  /\ g[1] = OptimFor(f[1])
                  /\ g[2].updates = Lookup(f[2], <<"classifier", "weight">>)
    /\ (files # {}) => dirExists

C9_NextIsOptim ==
    (pc \in {"save_optim", "final_optim"} /\ pc' # pc) =>
        \/ pc' = "failed"
        \/ /\ writes' = Append(writes, OptimFor(Last(writes)))
           /\ params' = params
           /\ optimizer' = optimizer
           /\ grad' = grad

\* C9: a model file is followed at once by the optimizer file of the same
\* suffix, nothing of the training state changing in between; outside a write
\* and without failure every model file has its optimizer file; the directory
\* exists before the first write.
C9_Theorem == []C9_Paired /\ [][C9_NextIsOptim]_vars

C9_Witness ==
    /\ pc = "done"
    /\ Cardinality(files) >= 6
    /\ epoch >= 1

\* ---- C10
\* C10: no path is written twice within a run.
C10_Theorem ==
    \A a, b \in 1..Len(writes) : a # b => writes[a] # writes[b]

C10_Witness ==
    /\ pc = "done"
    /\ Len(writes) >= 8
    /\ epoch >= 1
    /\ args.save_every = 1

====
